---- MODULE Spec2Model ----
(***************************************************************************)
(* State machine of src/components/Canvas.tsx: the React component that    *)
(* wraps a fabric canvas with snapshot undo/redo, shape/text/image insert, *)
(* grid snapping and project save/load.                                    *)
(*                                                                         *)
(* The fabric library is used through its callback API (loadFromJSON(json, *)
(* callback), Image.fromURL(url, callback)).  Its behaviour is modelled as *)
(* that API documents it: add/insertAt fire object:added, clear() removes  *)
(* the objects one by one and fires object:removed for each, toJSON leaves *)
(* out objects marked excludeFromExport and does not serialise the lock or *)
(* selectable flags, and loadFromJSON finishes synchronously unless the    *)
(* document holds an image, whose decoding is asynchronous.                *)
(*                                                                         *)
(* A snapshot / project document is abstracted to its "objects" array; the *)
(* canvas-level fields (background, version) are left out.                 *)
(***************************************************************************)
EXTENDS Integers, Sequences, FiniteSets, TLC

\* Bounds of the model.
MaxSteps == 4
MaxPending == 2
MaxPanelSteps == 5

\* Program constants.
canvasWidth == 800
canvasHeight == 600
gridSize == 50
Detached == 0 - 1

VARIABLES
  canvas,          \* fabric canvas: its objects, bottom to top
  history,         \* React state: snapshots, oldest first
  redoStack,       \* React state: snapshots popped by undo
  selectedObject,  \* React state: index in canvas of the active object, 0 = null
  drag,            \* pointer transform in progress
  pending,         \* asynchronous completions not yet run
  file,            \* the project.json written by saveProject
  steps,           \* number of user inputs so far
  ops,             \* names of the handlers that ran last, most recent last
  undoRun,         \* the run of undos and redos in progress, and where it began
  currentTool,     \* React state: 'select', 'draw' or 'erase'
  isDrawingMode,   \* fabric canvas: isDrawingMode
  isLayerModalOpen,\* React state: the layer panel is shown
  objects,         \* LayerManager state: the listed objects, as indices in canvas
  disposed,        \* the component is unmounted and the canvas disposed
  budget           \* number of user inputs the run may take

vars ==
  <<canvas, history, redoStack, selectedObject, drag, pending, file, steps, ops, undoRun,
    currentTool, isDrawingMode, isLayerModalOpen, objects, disposed, budget>>

----------------------------------------------------------------------------
\* Objects

FabricObject(type, left, top, fill) ==
  [type |-> type, left |-> left, top |-> top, fill |-> fill,
   fontSize |-> 0, filters |-> "none", visible |-> TRUE,
   lockMovementX |-> FALSE, selectable |-> TRUE, evented |-> TRUE,
   excludeFromExport |-> FALSE]

Rect == FabricObject("rect", 50, 50, "#0000ff")

Circle == FabricObject("circle", 200, 200, "#00ff00")

IText == [FabricObject("i-text", 300, 300, "#000000") EXCEPT !.fontSize = 20]

FabricImage == FabricObject("image", 0, 0, "rgb(0,0,0)")

\* The path that the free drawing brush adds at the end of a stroke.
Path(left, top, color) == FabricObject("path", left, top, color)

Line(left, top) ==
  [FabricObject("line", left, top, "rgb(0,0,0)") EXCEPT
     !.selectable = FALSE, !.evented = FALSE, !.excludeFromExport = TRUE]

\* drawGrid: one vertical line per i in 0..width/gridSize, then one horizontal
\* line per i in 0..height/gridSize, added on top of the given objects.
drawGrid(cv) ==
  cv \o [i \in 1..(canvasWidth \div gridSize + 1) |-> Line((i - 1) * gridSize, 0)]
     \o [i \in 1..(canvasHeight \div gridSize + 1) |-> Line(0, (i - 1) * gridSize)]

\* Math.round(v / gridSize) * gridSize, Math.round rounding halves up.
snapNoRound(v) == v
snap(v) == ((2 * v + gridSize) \div (2 * gridSize)) * gridSize

\* object:moving handler installed by drawGrid.
onObjectMoving(o) == [o EXCEPT !.left = snap(o.left), !.top = snap(o.top)]

----------------------------------------------------------------------------
\* Serialisation (fabric toJSON / loadFromJSON)

toObject(o) ==
  [type |-> o.type, left |-> o.left, top |-> o.top, fill |-> o.fill,
   fontSize |-> o.fontSize, filters |-> o.filters, visible |-> o.visible]

toJSON(cv) ==
  LET ex == SelectSeq(cv, LAMBDA o : ~o.excludeFromExport)
  IN  [i \in 1..Len(ex) |-> toObject(ex[i])]

fromObject(s) ==
  [type |-> s.type, left |-> s.left, top |-> s.top, fill |-> s.fill,
   fontSize |-> s.fontSize, filters |-> s.filters, visible |-> s.visible,
   lockMovementX |-> FALSE, selectable |-> TRUE, evented |-> TRUE,
   excludeFromExport |-> FALSE]

enlivenObjects(objs) == [i \in 1..Len(objs) |-> fromObject(objs[i])]

HasImage(objs) == \E i \in 1..Len(objs) : objs[i].type = "image"

----------------------------------------------------------------------------
\* React state and the canvas listeners

React == [history |-> history, redoStack |-> redoStack]

saveStateKeepRedo(st, cv) ==
  [history |-> Append(st.history, toJSON(cv)), redoStack |-> st.redoStack]
saveState(st, cv) ==
  [history |-> Append(st.history, toJSON(cv)), redoStack |-> <<>>]

\* canvas.on(event, () => saveState(canvas)) for object:added / removed / modified
onObjectEvent(st, cv) == saveState(st, cv)

\* The listener run once per event, cvs being the canvas at each event.
RECURSIVE fire(_, _)
fire(st, cvs) ==
  IF cvs = <<>> THEN st ELSE fire(onObjectEvent(st, Head(cvs)), Tail(cvs))

\* canvas.clear(): the canvases seen by the object:removed events.
clearEvents(cv) == [i \in 1..Len(cv) |-> SubSeq(cv, i + 1, Len(cv))]

\* insertAt of each enlivened object: the canvases seen by object:added.
insertEvents(objs) ==
  [j \in 1..Len(objs) |-> SubSeq(enlivenObjects(objs), 1, j)]

\* loadFromJSON once the objects are enlivened: clear, insert, then callback.
loadFromJSON(st, cv, objs) ==
  [canvas |-> enlivenObjects(objs),
   st |-> fire(st, clearEvents(cv) \o insertEvents(objs))]

----------------------------------------------------------------------------
\* Asynchronous completions

Task(kind, doc, captured) ==
  [kind |-> kind, doc |-> doc, captured |-> captured, aliased |-> kind = "undoLoad"]

Document(kind, objs) == [kind |-> kind, objects |-> objs]

NoDocument == Document("none", <<>>)

\* setHistory with a fresh array: a callback's captured array is no longer
\* the array React holds.
Unalias(ps) == [k \in 1..Len(ps) |-> [ps[k] EXCEPT !.aliased = FALSE]]

\* history.pop() on the array React holds: seen by the callbacks that
\* captured that same array.
PopAliased(ps) ==
  [k \in 1..Len(ps) |->
     IF ps[k].aliased /\ ps[k].kind = "undoLoad"
     THEN [ps[k] EXCEPT !.captured = SubSeq(@, 1, Len(@) - 1)]
     ELSE ps[k]]

Remove(ps, k) == SubSeq(ps, 1, k - 1) \o SubSeq(ps, k + 1, Len(ps))

NoDrag == [target |-> 0, moved |-> FALSE, x |-> 0, y |-> 0]

\* A load replaces every object: the drag target is no longer on the canvas.
DetachDrag(d) == IF d.target = 0 THEN d ELSE [d EXCEPT !.target = Detached]

----------------------------------------------------------------------------
\* Observation of the run: which handlers ran last, and the undo/redo run.

LastOp == ops[Len(ops)]

Recent(s) == IF Len(s) > 2 THEN Tail(s) ELSE s

NoRun == [undos |-> 0, redos |-> 0, canvas |-> <<>>, history |-> <<>>, ops |-> <<>>]

\* undos counts the undos that had something to undo since the last other
\* input, redos the redos invoked after them; canvas, history and ops are
\* those before the first of these undos.
RunAfter(op) ==
  IF op = "undo"
  THEN IF Len(history) <= 1 THEN undoRun
       ELSE IF undoRun.undos > 0 /\ undoRun.redos = 0
       THEN [undoRun EXCEPT !.undos = @ + 1]
       ELSE [undos |-> 1, redos |-> 0, canvas |-> toJSON(canvas), history |-> history,
             ops |-> ops]
  ELSE IF op = "redo"
  THEN IF undoRun.undos > 0 THEN [undoRun EXCEPT !.redos = @ + 1] ELSE undoRun
  ELSE IF op \in {"undoLoaded", "redoLoaded"} THEN undoRun
  ELSE NoRun

----------------------------------------------------------------------------
Start(inputs) ==
  /\ canvas = drawGrid(<<>>)
  /\ history = saveState([history |-> <<>>, redoStack |-> <<>>], canvas).history
  /\ redoStack = <<>>
  /\ selectedObject = 0
  /\ drag = NoDrag
  /\ pending = <<>>
  /\ file = NoDocument
  /\ steps = 0
  /\ ops = <<"init">>
  /\ undoRun = NoRun
  /\ currentTool = "select"
  /\ isDrawingMode = FALSE
  /\ isLayerModalOpen = FALSE
  /\ objects = <<>>
  /\ disposed = FALSE
  /\ budget = inputs

Init == Start(MaxSteps)

\* A handler run by a user input, while the component is mounted.
Handler(op) ==
  /\ steps < budget
  /\ ~disposed
  /\ steps' = steps + 1
  /\ ops' = Recent(Append(ops, op))
  /\ undoRun' = RunAfter(op)
  /\ UNCHANGED <<disposed, budget>>

\* A toolbar click or a pointer event on the canvas: the overlay of the
\* layer panel (fixed inset-0) covers both while the panel is open.
Input(op) ==
  /\ Handler(op)
  /\ ~isLayerModalOpen
  /\ UNCHANGED <<currentTool, isDrawingMode, isLayerModalOpen, objects>>

\* Toolbar and panel inputs arrive while no pointer transform is in progress.
Toolbar(op) == Input(op) /\ drag.target = 0

\* canvas.add(obj); saveState(canvas)
add(obj) ==
  LET cv == Append(canvas, obj)
      st == saveState(onObjectEvent(React, cv), cv)
  IN  /\ canvas' = cv
      /\ history' = st.history
      /\ redoStack' = st.redoStack
      /\ pending' = Unalias(pending)

addRectangle ==
  /\ Toolbar("addRectangle")
  /\ add(Rect)
  /\ UNCHANGED <<selectedObject, drag, file>>

addCircle ==
  /\ Toolbar("addCircle")
  /\ add(Circle)
  /\ UNCHANGED <<selectedObject, drag, file>>

addText ==
  /\ Toolbar("addText")
  /\ add(IText)
  /\ UNCHANGED <<selectedObject, drag, file>>

----------------------------------------------------------------------------
\* Undo / redo

\* The guard of undo: history.length > 1.
canUndoAny(h) == Len(h) > 0
canUndo(h) == Len(h) > 1

undo ==
  /\ Toolbar("undo")
  /\ IF canUndo(history)
     THEN LET prevState == IF Len(history) > 1 THEN history[Len(history) - 1] ELSE <<>>
              popped == SubSeq(history, 1, Len(history) - 1)  \* history.pop()
              st0 == [history |-> popped,
                      redoStack |-> Append(redoStack, history[Len(history)])]
          IN  IF Len(history) < 2
              THEN \* history[length - 2] is undefined: loadFromJSON returns at once
                   /\ history' = popped
                   /\ redoStack' = st0.redoStack
                   /\ pending' = PopAliased(pending)
                   /\ UNCHANGED <<canvas, selectedObject>>
              ELSE IF HasImage(prevState)
              THEN \* the callback runs after the images are decoded
                   /\ Len(pending) < MaxPending
                   /\ history' = popped
                   /\ redoStack' = st0.redoStack
                   /\ pending' = Append(PopAliased(pending),
                                        Task("undoLoad", Document("project", prevState), popped))
                   /\ UNCHANGED <<canvas, selectedObject>>
              ELSE LET r == loadFromJSON(st0, canvas, prevState)
                   IN  /\ canvas' = r.canvas
                       /\ history' = popped              \* setHistory([...history])
                       /\ redoStack' = r.st.redoStack
                       /\ selectedObject' = 0           \* selection:cleared
                       /\ pending' = Unalias(PopAliased(pending))
     ELSE UNCHANGED <<canvas, history, redoStack, selectedObject, pending>>
  /\ UNCHANGED <<drag, file>>

redo ==
  /\ Toolbar("redo")
  /\ IF Len(redoStack) > 0
     THEN LET nextState == redoStack[Len(redoStack)]
              st0 == [history |-> Append(history, nextState),
                      redoStack |-> SubSeq(redoStack, 1, Len(redoStack) - 1)]
          IN  IF HasImage(nextState)
              THEN /\ Len(pending) < MaxPending
                   /\ history' = st0.history
                   /\ redoStack' = st0.redoStack
                   /\ pending' = Append(Unalias(pending),
                                        Task("redoLoad", Document("project", nextState), <<>>))
                   /\ UNCHANGED <<canvas, selectedObject>>
              ELSE LET r == loadFromJSON(st0, canvas, nextState)
                   IN  /\ canvas' = r.canvas
                       /\ history' = r.st.history
                       /\ redoStack' = r.st.redoStack
                       /\ selectedObject' = 0
                       /\ pending' = Unalias(pending)
     ELSE UNCHANGED <<canvas, history, redoStack, selectedObject, pending>>
  /\ UNCHANGED <<drag, file>>

\* LayerManager's updateObjects, run by its useEffect when it mounts and by
\* its object:added / removed / modified listeners while it is mounted:
\* setObjects([...canvas.getObjects()]).
getObjects(cv) == [i \in 1..Len(cv) |-> i]

updateObjects(cv) ==
  objects' = IF isLayerModalOpen THEN getObjects(cv) ELSE objects

\* A completion callback: not a user input.
Completion(op) ==
  /\ steps' = steps
  /\ ops' = Recent(Append(ops, op))
  /\ undoRun' = RunAfter(op)
  /\ UNCHANGED <<currentTool, isDrawingMode, isLayerModalOpen, disposed, budget>>

\* loadFromJSON's callback of undo, after the clear and the inserts.
undoLoaded(k) ==
  /\ pending[k].kind = "undoLoad"
  /\ Completion("undoLoaded")
  /\ IF disposed
     THEN UNCHANGED <<canvas, history, redoStack, objects>>    \* clear() throws
     ELSE LET r == loadFromJSON(React, canvas, pending[k].doc.objects)
          IN  /\ canvas' = r.canvas
              /\ history' = pending[k].captured         \* setHistory([...history])
              /\ redoStack' = r.st.redoStack
              /\ updateObjects(r.canvas)
  /\ selectedObject' = 0
  /\ drag' = DetachDrag(drag)
  /\ pending' = Unalias(Remove(pending, k))
  /\ UNCHANGED file

\* loadFromJSON's callback of redo: renderAll only.
redoLoaded(k) ==
  /\ pending[k].kind = "redoLoad"
  /\ Completion("redoLoaded")
  /\ IF disposed
     THEN UNCHANGED <<canvas, history, redoStack, objects>>    \* clear() throws
     ELSE LET r == loadFromJSON(React, canvas, pending[k].doc.objects)
          IN  /\ canvas' = r.canvas
              /\ history' = r.st.history
              /\ redoStack' = r.st.redoStack
              /\ updateObjects(r.canvas)
  /\ selectedObject' = 0
  /\ drag' = DetachDrag(drag)
  /\ pending' = Unalias(Remove(pending, k))
  /\ UNCHANGED file

----------------------------------------------------------------------------
\* Image upload

handleImageUpload ==
  /\ Toolbar("handleImageUpload")
  /\ Len(pending) < MaxPending
  /\ pending' = Append(pending, Task("image", NoDocument, <<>>))
  /\ UNCHANGED <<canvas, history, redoStack, selectedObject, drag, file>>

\* FabricImage.fromURL callback: canvas.add(img); saveState(canvas). Nothing
\* cancels it when the component unmounts: it then adds the image to the
\* disposed canvas, and React drops the state updates of saveState.
imageLoaded(k) ==
  /\ pending[k].kind = "image"
  /\ Completion("imageLoaded")
  /\ LET cv == Append(canvas, FabricImage)
         st == saveState(onObjectEvent(React, cv), cv)
     IN  /\ canvas' = cv
         /\ history' = IF disposed THEN history ELSE st.history
         /\ redoStack' = IF disposed THEN redoStack ELSE st.redoStack
         /\ updateObjects(cv)
  /\ pending' = Unalias(Remove(pending, k))
  /\ UNCHANGED <<selectedObject, drag, file>>

----------------------------------------------------------------------------
\* Project save / load

\* saveProject: JSON.stringify(canvas.toJSON()) written to project.json
saveProject ==
  /\ Toolbar("saveProject")
  /\ file' = Document("project", toJSON(canvas))
  /\ UNCHANGED <<canvas, history, redoStack, selectedObject, drag, pending>>

\* Files the user can pick: the saved project, a project with a rectangle
\* off the grid, a file that is not JSON, and a JSON file that has no
\* "objects" (such as {}).
UnsnappedRect == toObject([Rect EXCEPT !.left = 10, !.top = 10])

Files ==
  (IF file = NoDocument THEN {} ELSE {file})
    \cup {Document("project", <<UnsnappedRect>>),
          Document("notJSON", <<>>),
          Document("noObjects", <<>>)}

Malformed(doc) == doc.kind \in {"notJSON", "noObjects"}

\* loadProject: starts the FileReader.
loadProject(doc) ==
  /\ Toolbar("loadProject")
  /\ Len(pending) < MaxPending
  /\ pending' = Append(pending, Task("read", doc, <<>>))
  /\ UNCHANGED <<canvas, history, redoStack, selectedObject, drag, file>>

\* canvas.loadFromJSON(json, () => { renderAll(); saveState(canvas) })
loadIntoCanvas(doc) ==
  LET r == loadFromJSON(React, canvas, doc.objects)
      st == saveState(r.st, r.canvas)
  IN  /\ IF disposed
         THEN UNCHANGED <<canvas, history, redoStack, objects>>    \* clear() throws
         ELSE /\ canvas' = r.canvas
              /\ history' = st.history
              /\ redoStack' = st.redoStack
              /\ updateObjects(r.canvas)
      /\ selectedObject' = 0
      /\ drag' = DetachDrag(drag)

\* reader.onload: JSON.parse throws on a file that is not JSON, and nothing
\* else runs; a document with an image waits for the decoding.
projectRead(k) ==
  /\ pending[k].kind = "read"
  /\ Completion(IF pending[k].doc.kind = "notJSON" THEN "projectRejected"
                ELSE IF HasImage(pending[k].doc.objects) THEN "projectDecoding"
                ELSE "projectLoaded")
  /\ IF pending[k].doc.kind = "notJSON"
     THEN /\ pending' = Remove(pending, k)
          /\ UNCHANGED <<canvas, history, redoStack, selectedObject, drag, objects>>
     ELSE IF HasImage(pending[k].doc.objects)
     THEN /\ pending' = [pending EXCEPT ![k].kind = "projectLoad"]
          /\ UNCHANGED <<canvas, history, redoStack, selectedObject, drag, objects>>
     ELSE /\ loadIntoCanvas(pending[k].doc)
          /\ pending' = Unalias(Remove(pending, k))
  /\ UNCHANGED file

projectLoaded(k) ==
  /\ pending[k].kind = "projectLoad"
  /\ Completion("projectLoaded")
  /\ loadIntoCanvas(pending[k].doc)
  /\ pending' = Unalias(Remove(pending, k))
  /\ UNCHANGED file

----------------------------------------------------------------------------
\* Pointer: selection and drag

\* Pointer positions driving a dragged object's left / top.
Pointers == {<<47, 53>>, <<125, 0 - 25>>, <<0 - 30, 175>>}
PointerXs == {p[1] : p \in Pointers}
PointerYs == {p[2] : p \in Pointers}

\* mouse down on an object: selection:created / selection:updated
mouseDown(i) ==
  /\ Input("mouseDown")
  /\ ~isDrawingMode
  /\ drag.target = 0
  /\ canvas[i].visible /\ canvas[i].evented /\ canvas[i].selectable
  /\ selectedObject' = i
  /\ drag' = [target |-> i, moved |-> FALSE, x |-> canvas[i].left, y |-> canvas[i].top]
  /\ UNCHANGED <<canvas, history, redoStack, pending, file>>

\* mouse down on the empty canvas: selection:cleared
clearSelection ==
  /\ Input("clearSelection")
  /\ ~isDrawingMode
  /\ drag.target = 0
  /\ selectedObject # 0
  /\ selectedObject' = 0
  /\ UNCHANGED <<canvas, history, redoStack, drag, pending, file>>

\* mouse move: the object follows the pointer, then object:moving fires.
mouseMove(x, y) ==
  /\ Input("mouseMove")
  /\ drag.target # 0
  /\ drag' = [drag EXCEPT !.moved = TRUE, !.x = x, !.y = y]
  /\ IF drag.target = Detached
     THEN UNCHANGED canvas
     ELSE /\ ~canvas[drag.target].lockMovementX
          /\ canvas' = [canvas EXCEPT ![drag.target] =
                          onObjectMoving([@ EXCEPT !.left = x, !.top = y])]
  /\ UNCHANGED <<history, redoStack, selectedObject, pending, file>>

\* object:modified after every mouse up, moved or not.
actionPerformedAlways(d) == TRUE

\* The transform moved its target: the condition on which the mouse up
\* fires object:modified.
actionPerformed(d) == d.moved

\* mouse up: object:modified fires if the object was moved.
mouseUp ==
  /\ Input(IF drag.moved THEN "dragEnd" ELSE "click")
  /\ drag.target # 0
  /\ drag' = NoDrag
  /\ IF actionPerformed(drag)
     THEN LET st == onObjectEvent(React, canvas)
          IN  /\ history' = st.history
              /\ redoStack' = st.redoStack
              /\ pending' = Unalias(pending)
     ELSE UNCHANGED <<history, redoStack, pending>>
  /\ UNCHANGED <<canvas, selectedObject, file>>

----------------------------------------------------------------------------
\* Property edits

Colours == {"#ff0000"}
FontSizes == {30}
FilterTypes == {"grayscale", "sepia"}

\* obj.set(property, value); renderAll(); saveState(canvas)
setAndSave(i, o) ==
  LET cv == [canvas EXCEPT ![i] = o]
      st == saveState(React, cv)
  IN  /\ canvas' = cv
      /\ history' = st.history
      /\ redoStack' = st.redoStack
      /\ pending' = Unalias(pending)

\* The colour pickers are rendered for a selected object that is no image.
updateObjectColor(value) ==
  /\ Toolbar("updateObjectColor")
  /\ selectedObject # 0
  /\ canvas[selectedObject].type # "image"
  /\ setAndSave(selectedObject, [canvas[selectedObject] EXCEPT !.fill = value])
  /\ UNCHANGED <<selectedObject, drag, file>>

selectedText ==
  IF selectedObject # 0 /\ canvas[selectedObject].type = "i-text"
  THEN selectedObject ELSE 0

\* updateTextProperty without its test of selectedText: it saves anyway.
updateTextPropertyUnguarded(property, value) ==
  /\ Toolbar("updateTextProperty")
  /\ IF selectedText # 0
     THEN setAndSave(selectedText, [canvas[selectedText] EXCEPT ![property] = value])
     ELSE LET st == saveState(React, canvas)
          IN  /\ history' = st.history
              /\ redoStack' = st.redoStack
              /\ pending' = Unalias(pending)
              /\ UNCHANGED canvas
  /\ UNCHANGED <<selectedObject, drag, file>>

\* if (selectedText) { selectedText.set(property, value); renderAll(); saveState(canvas) }
updateTextProperty(property, value) ==
  /\ Toolbar(IF selectedText # 0 THEN "updateTextProperty" ELSE "updateTextIgnored")
  /\ IF selectedText # 0
     THEN setAndSave(selectedText, [canvas[selectedText] EXCEPT ![property] = value])
     ELSE UNCHANGED <<canvas, history, redoStack, pending>>
  /\ UNCHANGED <<selectedObject, drag, file>>

applyFilter(filterType) ==
  /\ Toolbar("applyFilter")
  /\ selectedObject # 0
  /\ canvas[selectedObject].type = "image"
  /\ setAndSave(selectedObject, [canvas[selectedObject] EXCEPT !.filters = filterType])
  /\ UNCHANGED <<selectedObject, drag, file>>

----------------------------------------------------------------------------
\* Tools

\* A tool button: canvas.isDrawingMode = drawing; setCurrentTool(tool)
activate(op, tool, drawing) ==
  /\ Handler(op)
  /\ ~isLayerModalOpen
  /\ drag.target = 0
  /\ isDrawingMode' = drawing
  /\ currentTool' = tool
  /\ UNCHANGED <<canvas, history, redoStack, selectedObject, drag, pending, file,
                 isLayerModalOpen, objects>>

activateSelect == activate("activateSelect", "select", FALSE)

activateBrush == activate("activateBrush", "draw", TRUE)

\* An eraser that sets the tool and leaves isDrawingMode as it is.
activateEraserKeepsMode == activate("activateEraser", "erase", isDrawingMode)

activateEraser == activate("activateEraser", "erase", TRUE)

\* brush.color of activateBrush and of activateEraser
brushColor == IF currentTool = "erase" THEN "rgba(0,0,0,1)" ELSE "#000000"

\* Where a stroke of the free drawing brush starts.
Strokes == {<<60, 40>>}

\* A stroke in drawing mode: the PencilBrush adds the path, and the
\* object:added listener saves the state.
drawPath(x, y) ==
  /\ Input("drawPath")
  /\ isDrawingMode
  /\ drag.target = 0
  /\ LET cv == Append(canvas, Path(x, y, brushColor))
         st == onObjectEvent(React, cv)
     IN  /\ canvas' = cv
         /\ history' = st.history
         /\ redoStack' = st.redoStack
  /\ pending' = Unalias(pending)
  /\ UNCHANGED <<selectedObject, drag, file>>

----------------------------------------------------------------------------
\* Layer panel

\* The Layers button: setIsLayerModalOpen(true); LayerManager mounts and
\* its useEffect runs updateObjects.
openLayers ==
  /\ Handler("openLayers")
  /\ ~isLayerModalOpen
  /\ drag.target = 0
  /\ isLayerModalOpen' = TRUE
  /\ objects' = getObjects(canvas)
  /\ UNCHANGED <<canvas, history, redoStack, selectedObject, drag, pending, file,
                 currentTool, isDrawingMode>>

\* The overlay or the close button: LayerManager unmounts.
closeLayers ==
  /\ Handler("closeLayers")
  /\ isLayerModalOpen
  /\ isLayerModalOpen' = FALSE
  /\ objects' = <<>>
  /\ UNCHANGED <<canvas, history, redoStack, selectedObject, drag, pending, file,
                 currentTool, isDrawingMode>>

\* Rows of the panel that the buttons are pressed on: the bottom object and
\* the two on top.
Rows == {j \in 1..Len(objects) : j = 1 \/ j >= Len(objects) - 1}

\* A button of the row j of the panel: nothing but the canvas is written.
LayerButton(op, j) ==
  /\ Handler(op)
  /\ isLayerModalOpen
  /\ j \in 1..Len(objects)
  /\ UNCHANGED <<history, redoStack, drag, pending, file, currentTool, isDrawingMode,
                 isLayerModalOpen>>

\* obj.visible = !obj.visible; renderAll()
toggleVisibility(j) ==
  /\ LayerButton("toggleVisibility", j)
  /\ canvas' = [canvas EXCEPT ![objects[j]].visible = ~@]
  /\ UNCHANGED <<selectedObject, objects>>

\* isLocked = obj.lockMovementX; the lock flags = !isLocked; selectable = isLocked
toggleLockFlags(o) ==
  [o EXCEPT !.lockMovementX = ~@, !.selectable = o.lockMovementX]

toggleLock(j) ==
  /\ LayerButton("toggleLock", j)
  /\ canvas' = [canvas EXCEPT ![objects[j]] = toggleLockFlags(@)]
  /\ UNCHANGED <<selectedObject, objects>>

\* The canvas with the objects at a and b exchanged, and where the object
\* at i is afterwards.
Swap(cv, a, b) == [cv EXCEPT ![a] = cv[b], ![b] = cv[a]]

Moved(i, a, b) == IF i = a THEN b ELSE IF i = b THEN a ELSE i

\* The object at i is moved to where the object at to is: the stack is
\* reordered in place, no event is fired and the listed objects stay as
\* they were listed.
reorder(i, to) ==
  IF to \in 1..Len(canvas)
  THEN /\ canvas' = Swap(canvas, i, to)
       /\ selectedObject' = Moved(selectedObject, i, to)
       /\ objects' = [r \in 1..Len(objects) |-> Moved(objects[r], i, to)]
  ELSE UNCHANGED <<canvas, selectedObject, objects>>

\* canvas.bringForward(obj); renderAll()
bringForward(j) ==
  /\ LayerButton("bringForward", j)
  /\ reorder(objects[j], objects[j] + 1)

\* canvas.sendBackwards(obj); renderAll()
sendBackward(j) ==
  /\ LayerButton("sendBackward", j)
  /\ reorder(objects[j], objects[j] - 1)

----------------------------------------------------------------------------
\* Teardown

\* The component unmounts: the cleanup of the initialising effect disposes
\* the canvas, which empties it; the callbacks still pending stay pending.
unmount ==
  /\ steps < budget
  /\ ~disposed
  /\ disposed' = TRUE
  /\ canvas' = <<>>
  /\ selectedObject' = 0
  /\ drag' = NoDrag
  /\ isLayerModalOpen' = FALSE
  /\ objects' = <<>>
  /\ steps' = steps + 1
  /\ ops' = Recent(Append(ops, "unmount"))
  /\ undoRun' = RunAfter("unmount")
  /\ UNCHANGED <<history, redoStack, pending, file, currentTool, isDrawingMode, budget>>

----------------------------------------------------------------------------
Next ==
  \/ addRectangle
  \/ addCircle
  \/ addText
  \/ undo
  \/ redo
  \/ handleImageUpload
  \/ saveProject
  \/ \E doc \in Files : loadProject(doc)
  \/ \E i \in 1..Len(canvas) : mouseDown(i)
  \/ clearSelection
  \/ \E p \in Pointers : mouseMove(p[1], p[2])
  \/ mouseUp
  \/ \E value \in Colours : updateObjectColor(value)
  \/ \E value \in Colours : updateTextProperty("fill", value)
  \/ \E value \in FontSizes : updateTextProperty("fontSize", value)
  \/ \E filterType \in FilterTypes : applyFilter(filterType)
  \/ \E k \in 1..Len(pending) : undoLoaded(k)
  \/ \E k \in 1..Len(pending) : redoLoaded(k)
  \/ \E k \in 1..Len(pending) : imageLoaded(k)
  \/ \E k \in 1..Len(pending) : projectRead(k)
  \/ \E k \in 1..Len(pending) : projectLoaded(k)

Spec == Init /\ [][Next]_vars

\* The editor with its tool buttons and the free drawing brush.
NextTools ==
  \/ Next
  \/ activateSelect
  \/ activateBrush
  \/ activateEraser
  \/ \E p \in Strokes : drawPath(p[1], p[2])

SpecTools == Init /\ [][NextTools]_vars

\* The editor with its layer panel.
NextPanel ==
  \/ Next
  \/ openLayers
  \/ closeLayers
  \/ \E j \in Rows : toggleVisibility(j)
  \/ \E j \in Rows : toggleLock(j)
  \/ \E j \in Rows : bringForward(j)
  \/ \E j \in Rows : sendBackward(j)

SpecPanel == Start(MaxPanelSteps) /\ [][NextPanel]_vars

\* The editor that can be unmounted at any time.
NextTeardown ==
  \/ Next
  \/ unmount

SpecTeardown == Init /\ [][NextTeardown]_vars

----------------------------------------------------------------------------
\* Properties

\* Handlers that call saveState.
Saved ==
  {"addRectangle", "addCircle", "addText", "imageLoaded", "updateObjectColor",
   "updateTextProperty", "applyFilter", "projectLoaded", "dragEnd"}

Inserts == {"addRectangle", "addCircle", "addText", "imageLoaded"}

Front(s) == SubSeq(s, 1, Len(s) - 1)

LoadPending ==
  \E k \in 1..Len(pending) : pending[k].kind \in {"undoLoad", "redoLoad"}

\* Task k is the one that the step completes.
Completes(k) == pending' \in {Remove(pending, k), Unalias(Remove(pending, k))}

\* C1: after N undos that each had something to undo, followed by N redos,
\* the serialised canvas and the history are those before the first undo.
C1_UndoRedoRestores ==
  (undoRun.undos > 0 /\ undoRun.redos = undoRun.undos /\ ~LoadPending)
    => (toJSON(canvas) = undoRun.canvas /\ history = undoRun.history)

\* C2: every handler that records an action leaves redoStack empty, and a
\* redo that immediately follows it changes neither canvas nor history.
C2_NewActionClearsRedo ==
  [][/\ LastOp' \in Saved => redoStack' = <<>>
     /\ (LastOp \in Saved /\ LastOp' = "redo")
          => UNCHANGED <<canvas, history, redoStack>>]_vars

C2_Witness ==
  /\ ops = <<"undo", "addCircle">>
  /\ \E k \in 1..Len(pending) : pending[k].kind = "undoLoad"
  /\ redoStack = <<>>

\* C3: after addRectangle then addCircle, one undo leaves the rectangle and
\* removes the circle, and the redo that follows brings the circle back.
C3_UndoRemovesLastInsert ==
  [][/\ (/\ ops = <<"addRectangle", "addCircle">>
         /\ LastOp' = "undo"
         /\ ~HasImage(toJSON(canvas)))
          => toJSON(canvas') = Front(toJSON(canvas))
     /\ (/\ ops = <<"addCircle", "undo">>
         /\ undoRun.ops = <<"addRectangle", "addCircle">>
         /\ undoRun.undos = 1
         /\ LastOp' = "redo"
         /\ ~HasImage(undoRun.canvas))
          => toJSON(canvas') = undoRun.canvas]_vars

\* C4: an insert appends exactly one snapshot to history.
C4_InsertOneSnapshot ==
  [][LastOp' \in Inserts => Len(history') = Len(history) + 1]_vars

\* C5: loading the document that saveProject writes for the current canvas
\* leaves the canvas objects, their order and their attributes as they are.
C5_SaveLoadIdentity ==
  [][\A k \in 1..Len(pending) :
       (/\ LastOp' = "projectLoaded"
        /\ Completes(k)
        /\ pending[k].kind \in {"read", "projectLoad"}
        /\ pending[k].doc = Document("project", toJSON(canvas)))
         => canvas' = canvas]_vars

\* C6: the completion of a load of a malformed file changes neither the
\* canvas nor history nor redoStack.
C6_MalformedLoadRejected ==
  [][\A k \in 1..Len(pending) :
       (/\ LastOp' \in {"projectRejected", "projectLoaded"}
        /\ Completes(k)
        /\ pending[k].kind = "read"
        /\ Malformed(pending[k].doc))
         => UNCHANGED <<canvas, history, redoStack>>]_vars

\* v is a multiple of the grid size nearest to p.
Nearest(v, p) ==
  /\ v % gridSize = 0
  /\ 2 * (IF v > p THEN v - p ELSE p - v) <= gridSize

\* Index in toJSON(cv) of the object at index i of cv.
ExportIndex(cv, i) == Len(toJSON(SubSeq(cv, 1, i)))

C8_InsertIdempotent ==
  [][(LastOp \in {"addRectangle", "addCircle", "addText"} /\ LastOp' = LastOp)
       => Len(canvas') = Len(canvas)]_vars

\* C9: history is never empty and starts with the initial snapshot; undo on
\* a history of one snapshot changes neither history, redoStack nor canvas.
C9_UndoNothingToUndo ==
  /\ [](Len(history) >= 1 /\ history[1] = toJSON(drawGrid(<<>>)))
  /\ [][(LastOp' = "undo" /\ Len(history) = 1)
          => UNCHANGED <<canvas, history, redoStack>>]_vars

\* The grid is still on the canvas: nothing was ever loaded, so the two
\* undos had nothing to undo.
C9_Witness ==
  /\ ops = <<"undo", "undo">>
  /\ canvas = drawGrid(<<>>)
  /\ Len(history) = 1
  /\ redoStack = <<>>

\* C10: redo on an empty redoStack changes nothing; otherwise it removes the
\* last snapshot of redoStack, appends it to history and loads it into the
\* canvas, and history grows by that snapshot only.
C10_RedoExact ==
  [][/\ (LastOp' = "redo" /\ redoStack = <<>>)
          => UNCHANGED <<canvas, history, redoStack>>
     /\ (LastOp' = "redo" /\ redoStack # <<>>)
          => /\ redoStack' = Front(redoStack)
             /\ history' = Append(history, redoStack[Len(redoStack)])
             /\ \/ canvas' = enlivenObjects(redoStack[Len(redoStack)])
                \/ \E k \in 1..Len(pending') :
                     /\ pending'[k].kind = "redoLoad"
                     /\ pending'[k].doc.objects = redoStack[Len(redoStack)]
     /\ \A k \in 1..Len(pending) :
          (LastOp' = "redoLoaded" /\ Completes(k) /\ pending[k].kind = "redoLoad")
            => /\ canvas' = enlivenObjects(pending[k].doc.objects)
               /\ history' = history
               /\ redoStack' = redoStack]_vars

\* C11: the replay of history never clears redoStack: an undo that has
\* something to undo leaves redoStack one snapshot longer, a redo on a
\* redoStack that is not empty leaves it one snapshot shorter, and the
\* completion of an undo's or a redo's load leaves redoStack as it is.
C11_ReplayKeepsRedo ==
  [][/\ (LastOp' = "undo" /\ canUndo(history))
          => Len(redoStack') = Len(redoStack) + 1
     /\ (LastOp' = "redo" /\ redoStack # <<>>)
          => Len(redoStack') = Len(redoStack) - 1
     /\ LastOp' \in {"undoLoaded", "redoLoaded"}
          => redoStack' = redoStack]_vars

\* C12: a drag appends exactly one snapshot, at its end: the mouse down and
\* each object:moving step leave history as it is, and the mouse up of a
\* drag that moved appends one snapshot, that of the canvas.
C12_DragOneSnapshot ==
  [][/\ LastOp' \in {"mouseDown", "mouseMove", "click"} => history' = history
     /\ LastOp' = "dragEnd"
          => history' = Append(history, toJSON(canvas'))]_vars

\* A rectangle was added and dragged to another grid position.
C12_Witness ==
  /\ ops = <<"mouseMove", "dragEnd">>
  /\ Len(history) = 4
  /\ history[2] = history[3]
  /\ history[4] # history[3]
  /\ history[4] = toJSON(canvas)

Activations == {"activateSelect", "activateBrush", "activateEraser"}

\* C13: after an insert the tool is 'select' and the canvas is not in
\* drawing mode, whatever the tool was before.
C13_InsertSelectsSelect ==
  [][LastOp' \in Inserts => (currentTool' = "select" /\ ~isDrawingMode')]_vars

C15_TextEditOneSnapshot ==
  [][LastOp' \in {"updateTextProperty", "updateTextIgnored"}
       => IF selectedText # 0
          THEN /\ history' = Append(history, toJSON(canvas'))
               /\ Len(canvas') = Len(canvas)
               /\ \A i \in 1..Len(canvas) : i # selectedText => canvas'[i] = canvas[i]
          ELSE UNCHANGED <<canvas, history, redoStack, selectedObject>>]_vars

\* The text that was added and selected has its font size changed, and the
\* change is the fourth snapshot.
C15_Witness ==
  /\ ops = <<"click", "updateTextProperty">>
  /\ selectedText # 0
  /\ canvas[selectedText].fontSize \in FontSizes
  /\ Len(history) = 4
  /\ history[4] # history[3]

LayerButtons == {"toggleVisibility", "toggleLock", "bringForward", "sendBackward"}

\* C16: each button of the layer panel appends one snapshot to history, that
\* of the canvas it leaves.
C16_LayerChangeRecorded ==
  [][LastOp' \in LayerButtons => history' = Append(history, toJSON(canvas'))]_vars

\* C17: while the layer panel is open, the objects it lists are the objects
\* of the canvas, in the order of the canvas.
C17_PanelListsCanvas ==
  isLayerModalOpen => objects = getObjects(canvas)

\* C18: an object whose lockMovementX is set is not selectable and is not
\* the selected object.
C18_LockedNotSelected ==
  \A i \in 1..Len(canvas) :
    canvas[i].lockMovementX => (~canvas[i].selectable /\ selectedObject # i)

\* C19: once the component is unmounted and the canvas disposed, the
\* completion of an image import or of a project load that was pending adds
\* no object to the canvas and appends nothing to history.
C19_TeardownDiscardsPending ==
  [][(disposed /\ LastOp' \in {"imageLoaded", "projectRejected", "projectDecoding",
                               "projectLoaded"})
       => (canvas' = canvas /\ history' = history)]_vars

IsPrefix(s, t) == Len(s) <= Len(t) /\ SubSeq(t, 1, Len(s)) = s

\* C20: no snapshot is lost: a step leaves history as it is, appends
\* snapshots to it, or is an undo that removes its last snapshot only.
C20_NoSnapshotLost ==
  [][\/ IsPrefix(history, history')
     \/ (LastOp' = "undo" /\ history' = Front(history))]_vars

====
